---- MODULE Spec2Model ----
(***************************************************************************)
(* A model of pylinac's Winston-Lutz analysis (pylinac/winston_lutz.py):   *)
(* the per-image axis classification and offsets, the ordered image        *)
(* collection, the memoized per-axis isocenter solve and its six query     *)
(* properties, the construction of the image collection, the border       *)
(* cleaning of an image and the threshold-lowering BB search.              *)
(*                                                                         *)
(* Angles are whole degrees; pixel coordinates and physical lengths are    *)
(* integers; distances are rounded down to whole units.                    *)
(***************************************************************************)
EXTENDS Integers, Sequences, FiniteSets, TLC

VARIABLES
    img,           \* SpecAxis: the image whose properties are read
    axis_res,      \* SpecAxis: what the properties returned
    files,         \* the image files of the directory, in load order
    images,        \* analysis object -> its ImageManager (a sequence of images)
    optimum,       \* axis -> the point scipy's optimize.minimize converges to
    cache,         \* the lru_cache of _minimize_axis, most recently used first
    solves,        \* <<object, axis>> -> how often the optimisation was run
    out,           \* what the last query returned or raised
    init_log,      \* the detection steps the last construction ran, in order
    files2,        \* SpecPair: the files of a second directory
    pair_out,      \* SpecPair: what the solve of one axis gave for each directory
    ce_pc,         \* _clean_edges: "idle", "loop", "done" or "error"
    shape0,        \* _clean_edges: <<rows, columns>> of the image it was given
    shape,         \* _clean_edges: <<rows, columns>> of the image now
    safety_stop,   \* _clean_edges: the countdown, in tenths
    strips,        \* _clean_edges: how often remove_edges was called
    noise,         \* _clean_edges: what the last has_noise call returned
    bb_pc,         \* _find_bb: "idle", "loop", "found" or "error"
    hmin,          \* _find_bb: 5th percentile intensity
    hmax,          \* _find_bb: 99.9th percentile intensity
    max_thresh,    \* _find_bb: the upper threshold
    lower_thresh,  \* _find_bb: the lower threshold
    attempt        \* _find_bb: what the last attempt of the search saw

axisVars == <<img, axis_res>>
wlVars   == <<files, images, optimum, cache, solves, out, init_log>>
bbVars   == <<bb_pc, hmin, hmax, max_thresh, lower_thresh, attempt>>
pairVars == <<files2, pair_out>>
ceVars   == <<ce_pc, shape0, shape, safety_stop, strips, noise>>
vars     == <<img, axis_res, files, images, optimum, cache, solves, out,
              init_log, files2, pair_out,
              ce_pc, shape0, shape, safety_stop, strips, noise,
              bb_pc, hmin, hmax, max_thresh, lower_thresh, attempt>>

(***************************************************************************)
(* Bounds of the model.                                                    *)
(***************************************************************************)
\* the longest directory listing of the main specification
MaxImages == 3
\* the ghost counter `solves` saturates here
SolveCap == 2
\* the longest directory listing under SpecPair
PairLen == 3
\* the largest number of rows and of columns of an image under SpecCleanEdges
MaxDim == 12
\* largest number of labelled regions one attempt of the BB search sees
MaxRoi == 3
\* analysis objects built under SpecCache (3 axes each: 129 cache keys)
NumCacheObjects == 43

(***************************************************************************)
(* Module constants, winston_lutz.py:34-38.                                *)
(***************************************************************************)
GANTRY == "Gantry"
COLLIMATOR == "Collimator"
COUCH == "Couch"
COMBO == "Combo"
REFERENCE == "Reference"

Axes == {GANTRY, COLLIMATOR, COUCH}

\* A property that returns None, and one that returns a number.
NoValue == [some |-> FALSE, val |-> 0]
Num(n) == [some |-> TRUE, val |-> n]

Abs(n) == IF n < 0 THEN -n ELSE n
Max(S) == CHOOSE m \in S : \A n \in S : n <= m
\* floor of the square root
ISqrt(n) == CHOOSE r \in 0..n : r * r <= n /\ n < (r + 1) * (r + 1)

(***************************************************************************)
(* core.utilities.is_close: the value is strictly within delta of one of   *)
(* the targets.                                                            *)
(***************************************************************************)
is_close(val, targets, delta) ==
    \E t \in targets : t - delta < val /\ val < t + delta

(***************************************************************************)
(* core.geometry sin / cos (degrees), on the quadrant angles.              *)
(***************************************************************************)
sin(a) == CASE a % 360 = 0 -> 0 [] a % 360 = 90 -> 1
            [] a % 360 = 180 -> 0 [] a % 360 = 270 -> -1
cos(a) == CASE a % 360 = 0 -> 1 [] a % 360 = 90 -> 0
            [] a % 360 = 180 -> -1 [] a % 360 = 270 -> 0

(***************************************************************************)
(* WLImage: the angle properties, winston_lutz.py:609-631.                 *)
(***************************************************************************)
gantry_angle(i) ==
    IF is_close(i.GantryAngle, {0, 360}, 1) THEN 0 ELSE i.GantryAngle

collimator_angle(i) ==
    IF is_close(i.BeamLimitingDeviceAngle, {0, 360}, 1) THEN 0
    ELSE i.BeamLimitingDeviceAngle

couch_angle(i) ==
    IF is_close(i.PatientSupportAngle, {0, 360}, 1) THEN 0
    ELSE i.PatientSupportAngle

(***************************************************************************)
(* WLImage.variable_axis, winston_lutz.py:758-782.                         *)
(***************************************************************************)
variable_axis_no360(i) ==
    LET G0 == is_close(i.GantryAngle, {0}, 1)
        B0 == is_close(i.BeamLimitingDeviceAngle, {0}, 1)
        P0 == is_close(i.PatientSupportAngle, {0}, 1)
    IN  IF G0 /\ B0 /\ ~P0 THEN COUCH
        ELSE IF G0 /\ P0 /\ ~B0 THEN COLLIMATOR
        ELSE IF P0 /\ B0 /\ ~G0 THEN GANTRY
        ELSE IF P0 /\ B0 /\ G0 THEN REFERENCE
        ELSE COMBO

\* a classification whose Gantry class does not look at the couch
variable_axis_gantry_any_couch(i) ==
    LET G0 == is_close(gantry_angle(i), {0, 360}, 1)
        B0 == is_close(collimator_angle(i), {0, 360}, 1)
        P0 == is_close(couch_angle(i), {0, 360}, 1)
    IN  IF G0 /\ B0 /\ ~P0 THEN COUCH
        ELSE IF G0 /\ P0 /\ ~B0 THEN COLLIMATOR
        ELSE IF B0 /\ ~G0 THEN GANTRY
        ELSE IF P0 /\ B0 /\ G0 THEN REFERENCE
        ELSE COMBO

variable_axis(i) ==
    LET G0 == is_close(gantry_angle(i), {0, 360}, 1)
        B0 == is_close(collimator_angle(i), {0, 360}, 1)
        P0 == is_close(couch_angle(i), {0, 360}, 1)
    IN  IF G0 /\ B0 /\ ~P0 THEN COUCH
        ELSE IF G0 /\ P0 /\ ~B0 THEN COLLIMATOR
        ELSE IF P0 /\ B0 /\ ~G0 THEN GANTRY
        ELSE IF P0 /\ B0 /\ G0 THEN REFERENCE
        ELSE COMBO

(***************************************************************************)
(* WLImage: the CAX vectors, winston_lutz.py:703-713.  Points and vectors  *)
(* are records x, y, z; the detected points are 2D (z = 0).                *)
(***************************************************************************)
Vector(x, y, z) == [x |-> x, y |-> y, z |-> z]

cax2bb_vector(i) ==
    Vector((i.bb[1] - i.field_cax[1]) \div i.dpmm,
           (i.bb[2] - i.field_cax[2]) \div i.dpmm, 0)

cax2epid_vector(i) ==
    Vector((i.center[1] - i.field_cax[1]) \div i.dpmm,
           (i.center[2] - i.field_cax[2]) \div i.dpmm, 0)

(***************************************************************************)
(* WLImage: the directional offsets, winston_lutz.py:643-678.              *)
(***************************************************************************)
bb_y_offset(i) == (0 - sin(gantry_angle(i))) * cax2bb_vector(i).x
bb_x_offset(i) == cos(gantry_angle(i)) * cax2bb_vector(i).x

epid_z_offset(i) ==
    IF is_close(couch_angle(i), {0, 360}, 2)
    THEN Num(0 - cax2epid_vector(i).y) ELSE NoValue

bb_z_offset_delta1(i) ==
    IF is_close(couch_angle(i), {0, 360}, 1)
    THEN Num(0 - cax2bb_vector(i).y) ELSE NoValue

bb_z_offset(i) ==
    IF is_close(couch_angle(i), {0, 360}, 2)
    THEN Num(0 - cax2bb_vector(i).y) ELSE NoValue

(***************************************************************************)
(* WLImage.cax_line_projection, winston_lutz.py:680-701: a Line through    *)
(* two points; z is the (possibly missing) in/out offset.                  *)
(***************************************************************************)
cax_line_projection(i) ==
    [p1 |-> [x |-> bb_x_offset(i) + 20 * sin(gantry_angle(i)),
             y |-> bb_y_offset(i) + 20 * cos(gantry_angle(i)),
             z |-> bb_z_offset(i)],
     p2 |-> [x |-> bb_x_offset(i) - 20 * sin(gantry_angle(i)),
             y |-> bb_y_offset(i) - 20 * cos(gantry_angle(i)),
             z |-> bb_z_offset(i)]]

(***************************************************************************)
(* core.geometry distance_to.  Line to Point: the perpendicular distance   *)
(* |(p2 - p1) x (p1 - p)| / |p2 - p1|; Vector to Point: the Euclidean      *)
(* distance; Vector to Circle: the distance to the circle's boundary.      *)
(***************************************************************************)
Line_distance_to(l, p) ==
    LET dx == l.p2.x - l.p1.x
        dy == l.p2.y - l.p1.y
        dz == l.p2.z.val - l.p1.z.val
        wx == l.p1.x - p.x
        wy == l.p1.y - p.y
        wz == l.p1.z.val - p.z
        cx == dy * wz - dz * wy
        cy == dz * wx - dx * wz
        cz == dx * wy - dy * wx
    IN  ISqrt((cx * cx + cy * cy + cz * cz) \div (dx * dx + dy * dy + dz * dz))

Vector_distance_to_Point(v, p) ==
    ISqrt((v.x - p.x) * (v.x - p.x) + (v.y - p.y) * (v.y - p.y)
          + (v.z - p.z) * (v.z - p.z))

Vector_distance_to_Circle(v, c) ==
    Abs(ISqrt((v.x - c.center.x) * (v.x - c.center.x)
              + (v.y - c.center.y) * (v.y - c.center.y)) - c.radius)

(***************************************************************************)
(* WinstonLutz._minimize_axis, winston_lutz.py:114-135.                    *)
(***************************************************************************)
\* the inner function `distance`, lines 117-122; p is <<x, y, z, r>>
distance(axis, p, things) ==
    LET pt == [x |-> p[1], y |-> p[2], z |-> p[3]]
        other_thing == IF axis = COUCH THEN [center |-> pt, radius |-> p[4]]
                       ELSE pt
    IN  Max({ IF axis = GANTRY THEN Line_distance_to(things[n], other_thing)
              ELSE IF axis = COUCH
                   THEN Vector_distance_to_Circle(things[n], other_thing)
                   ELSE Vector_distance_to_Point(things[n], other_thing)
              : n \in 1..Len(things) })

\* the images the comprehension of line 129 keeps, in collection order
SelectImages_axis_only(imgs, axis) ==
    SelectSeq(imgs, LAMBDA i : variable_axis(i) = axis)

\* a filter that lets the Combo images in as well
SelectImages_with_combo(imgs, axis) ==
    SelectSeq(imgs, LAMBDA i : variable_axis(i) \in {axis, REFERENCE, COMBO})

SelectImages(imgs, axis) ==
    SelectSeq(imgs, LAMBDA i : variable_axis(i) \in {axis, REFERENCE})

\* lines 124-129: the geometric object of each selected image
Things(imgs, axis) ==
    LET sel == SelectImages(imgs, axis)
    IN  [n \in 1..Len(sel) |->
            IF axis = GANTRY THEN cax_line_projection(sel[n])
            ELSE cax2bb_vector(sel[n])]

\* line 132: the search bounds of the optimisation
bounds == << <<-30, 30>>, <<-30, 30>>, <<-30, 30>>, <<0, 28>> >>

InBounds(p) == \A k \in 1..4 : bounds[k][1] <= p[k] /\ p[k] <= bounds[k][2]

\* line 133: the initial guess
initial_guess == <<0, 0, 0, 0>>

\* the points the bounded optimiser may converge to
Candidates == { p \in {initial_guess, <<1, -2, 1, 3>>} : InBounds(p) }

\* line 134: scipy's OptimizeResult: the point found and the objective there
optimize_minimize(axis, things) ==
    [kind |-> "ok", x |-> optimum[axis],
     fun |-> distance(axis, optimum[axis], things)]

NotEnoughImages == [kind |-> "NotEnoughImages", x |-> initial_guess, fun |-> 0]
TypeError == [kind |-> "TypeError", x |-> initial_guess, fun |-> 0]

\* line 130 with an off-by-one
TooFewThings_strict(things) == Len(things) < 1

\* line 130
TooFewThings(things) == Len(things) <= 1

\* the body of _minimize_axis (a cache miss)
minimize_axis_body(imgs, axis) ==
    LET things == Things(imgs, axis)
    IN  IF TooFewThings(things) THEN NotEnoughImages
        ELSE IF axis = GANTRY
                /\ \E n \in 1..Len(things) : ~things[n].p1.z.some
             THEN TypeError
        ELSE optimize_minimize(axis, things)

(***************************************************************************)
(* functools.lru_cache() on _minimize_axis, winston_lutz.py:114: one cache *)
(* for the class, keyed by (self, axis), holding at most maxsize entries;  *)
(* a hit moves the entry to the front, a miss that returns inserts it and  *)
(* evicts the least recently used entry of a full cache; a call that       *)
(* raises stores nothing.                                                  *)
(***************************************************************************)
lru_maxsize == 128

CacheIndex(c, key) ==
    IF \E n \in 1..Len(c) : c[n].key = key
    THEN CHOOSE n \in 1..Len(c) : c[n].key = key
    ELSE 0

Without(c, n) == [m \in 1..(Len(c) - 1) |-> IF m < n THEN c[m] ELSE c[m + 1]]

\* a cache that is emptied by a call that raises
minimize_axis_clearing_on_error(st, o, axis) ==
    LET key == <<o, axis>>
        n == CacheIndex(st.cache, key)
    IN  IF n > 0
        THEN [cache |-> <<st.cache[n]>> \o Without(st.cache, n),
              solves |-> st.solves, res |-> st.cache[n].result]
        ELSE LET r == minimize_axis_body(images[o], axis)
             IN  IF r.kind # "ok"
                 THEN [cache |-> << >>, solves |-> st.solves, res |-> r]
                 ELSE [cache |-> SubSeq(<<[key |-> key, result |-> r]>> \o st.cache,
                                        1, IF Len(st.cache) + 1 < lru_maxsize
                                           THEN Len(st.cache) + 1 ELSE lru_maxsize),
                       solves |-> [st.solves EXCEPT
                                     ![key] = IF @ < SolveCap THEN @ + 1 ELSE @],
                       res |-> r]

\* st is [cache, solves]; the value is the new cache and counter and what
\* the call returns or raises
minimize_axis(st, o, axis) ==
    LET key == <<o, axis>>
        n == CacheIndex(st.cache, key)
    IN  IF n > 0
        THEN [cache |-> <<st.cache[n]>> \o Without(st.cache, n),
              solves |-> st.solves, res |-> st.cache[n].result]
        ELSE LET r == minimize_axis_body(images[o], axis)
             IN  IF r.kind # "ok"
                 THEN [cache |-> st.cache, solves |-> st.solves, res |-> r]
                 ELSE [cache |-> SubSeq(<<[key |-> key, result |-> r]>> \o st.cache,
                                        1, IF Len(st.cache) + 1 < lru_maxsize
                                           THEN Len(st.cache) + 1 ELSE lru_maxsize),
                       solves |-> [st.solves EXCEPT
                                     ![key] = IF @ < SolveCap THEN @ + 1 ELSE @],
                       res |-> r]

(***************************************************************************)
(* The six query properties, winston_lutz.py:137-172.  Each takes the      *)
(* cache state st = [cache, solves] and the analysis object o, and gives   *)
(* the new cache state and ret: the value returned or the error raised.    *)
(***************************************************************************)
Returned(c, v) ==
    [cache |-> c.cache, solves |-> c.solves,
     ret |-> IF c.res.kind = "ok" THEN [kind |-> "ok", val |-> v]
             ELSE [kind |-> c.res.kind, val |-> 0]]

gantry_iso_size(st, o) ==
    LET c == minimize_axis(st, o, GANTRY) IN Returned(c, c.res.fun * 2)

gantry_iso2bb_vector(st, o) ==
    LET c == minimize_axis(st, o, GANTRY)
    IN  Returned(c, Vector(c.res.x[1], c.res.x[2], c.res.x[3]))

collimator_iso_size(st, o) ==
    LET c == minimize_axis(st, o, COLLIMATOR) IN Returned(c, c.res.fun * 2)

collimator_iso2bb_vector(st, o) ==
    LET c == minimize_axis(st, o, COLLIMATOR)
    IN  Returned(c, Vector(c.res.x[1], c.res.x[2], 0))

couch_iso_size_from_fun(st, o) ==
    LET c == minimize_axis(st, o, COUCH) IN Returned(c, c.res.fun * 2)

couch_iso_size(st, o) ==
    LET c == minimize_axis(st, o, COUCH) IN Returned(c, c.res.x[4] * 2)

couch_iso2bb_vector(st, o) ==
    LET c == minimize_axis(st, o, COUCH)
    IN  Returned(c, Vector(c.res.x[1], c.res.x[2], 0))

(***************************************************************************)
(* ImageManager.__init__, winston_lutz.py:475-490: every file is loaded    *)
(* and appended, then list.sort (a stable sort) orders the list by the     *)
(* key (gantry_angle, collimator_angle, couch_angle).                      *)
(***************************************************************************)
(* The sag ranges, lines 174-184, along the default axis 'z'.             *)
(***************************************************************************)
Min(S) == CHOOSE m \in S : \A x \in S : m <= x

\* the images picked by lines 177 and 183
SagImages(imgs) ==
    SelectSeq(imgs, LAMBDA i : variable_axis(i) \in {GANTRY, REFERENCE})

\* max(sag_array) - min(sag_array), lines 178 and 184: max() of an empty
\* list raises ValueError, an offset of None raises TypeError
SagRange(sag_array) ==
    IF sag_array = << >> THEN [kind |-> "ValueError", val |-> 0]
    ELSE IF \E n \in 1..Len(sag_array) : ~sag_array[n].some
         THEN [kind |-> "TypeError", val |-> 0]
         ELSE LET vals == {sag_array[n].val : n \in 1..Len(sag_array)}
              IN  [kind |-> "ok", val |-> Max(vals) - Min(vals)]

gantry_sag(imgs) ==
    SagRange([n \in 1..Len(SagImages(imgs)) |-> bb_z_offset(SagImages(imgs)[n])])

epid_sag(imgs) ==
    SagRange([n \in 1..Len(SagImages(imgs)) |-> epid_z_offset(SagImages(imgs)[n])])

(***************************************************************************)
SortKey(i) == <<gantry_angle(i), collimator_angle(i), couch_angle(i)>>

\* Python's tuple comparison
TupleLess(a, b) ==
    \/ a[1] < b[1]
    \/ a[1] = b[1] /\ a[2] < b[2]
    \/ a[1] = b[1] /\ a[2] = b[2] /\ a[3] < b[3]

\* where x goes in the sorted list srt: after every element whose key is
\* not greater than x's, so that images with equal keys keep their order
InsertAfterEqual(srt, x) ==
    LET k == Cardinality({n \in 1..Len(srt) :
                            ~TupleLess(SortKey(x), SortKey(srt[n]))})
    IN  SubSeq(srt, 1, k) \o <<x>> \o SubSeq(srt, k + 1, Len(srt))

\* x goes before the elements whose key equals its own
InsertBeforeEqual(srt, x) ==
    LET k == Cardinality({n \in 1..Len(srt) :
                            TupleLess(SortKey(srt[n]), SortKey(x))})
    IN  SubSeq(srt, 1, k) \o <<x>> \o SubSeq(srt, k + 1, Len(srt))

RECURSIVE list_sort_unstable(_)
list_sort_unstable(s) ==
    IF Len(s) = 0 THEN << >>
    ELSE InsertBeforeEqual(list_sort_unstable(SubSeq(s, 1, Len(s) - 1)), s[Len(s)])

RECURSIVE list_sort(_)
\* line 490: list.sort with the key, a stable sort
list_sort(s) ==
    IF Len(s) = 0 THEN << >>
    ELSE InsertAfterEqual(list_sort(SubSeq(s, 1, Len(s) - 1)), s[Len(s)])

(***************************************************************************)
(* Construction of the images and of the collection.  An image file       *)
(* record carries what the detectors find in its pixels; bb_search is     *)
(* how the search of _find_bb ends on them.                                *)
(***************************************************************************)
\* a steps variant that finds the field before the edges are cleaned
WLImage_init_field_first(f) ==
    [raised |-> f.bb_search = "error", image |-> f,
     log |-> << [file |-> f.file, step |-> "_find_field_centroid"],
                [file |-> f.file, step |-> "_clean_edges"],
                [file |-> f.file, step |-> "_find_bb"] >>]

\* WLImage.__init__, lines 505-508: the three steps in order; _find_bb
\* raises (line 591) when its search ends in the error
WLImage_init(f) ==
    [raised |-> f.bb_search = "error", image |-> f,
     log |-> << [file |-> f.file, step |-> "_clean_edges"],
                [file |-> f.file, step |-> "_find_field_centroid"],
                [file |-> f.file, step |-> "_find_bb"] >>]

\* the loop of lines 486-488: an image that raises ends the loop at once
RECURSIVE LoadImages(_)
LoadImages(fs) ==
    IF fs = << >> THEN [raised |-> FALSE, images |-> << >>, log |-> << >>]
    ELSE LET before == LoadImages(SubSeq(fs, 1, Len(fs) - 1))
             w == WLImage_init(fs[Len(fs)])
         IN  IF before.raised THEN before
             ELSE [raised |-> w.raised,
                   images |-> IF w.raised THEN before.images
                              ELSE Append(before.images, w.image),
                   log |-> before.log \o w.log]

\* a collection that leaves out the images whose BB was not found
ImageManager_init_skipping(fs) ==
    LET found == SelectSeq(fs, LAMBDA f : f.bb_search = "found")
    IN  [raised |-> FALSE, images |-> list_sort(found), log |-> LoadImages(found).log]

\* ImageManager.__init__, lines 475-490: load every file, then sort
ImageManager_init(fs) ==
    LET loaded == LoadImages(fs)
    IN  [raised |-> loaded.raised,
         images |-> IF loaded.raised THEN << >> ELSE list_sort(loaded.images),
         log |-> loaded.log]

(***************************************************************************)
(* Image files.  A file gives the DICOM angles, the detected field centre, *)
(* field bounding box and BB (pixels), the panel centre and the pixels per *)
(* mm.                                                                     *)
(***************************************************************************)
File(f, g, b, p, bbx, bby, d) ==
    [file |-> f, GantryAngle |-> g, BeamLimitingDeviceAngle |-> b,
     PatientSupportAngle |-> p, field_cax |-> <<10, 10>>,
     bounding_box |-> <<-40, 60, -40, 60>>, bb |-> <<bbx, bby>>,
     bb_search |-> "found", center |-> <<8, 12>>, dpmm |-> d]

\* a file in whose pixels the BB search aborts
Obscured(f) == [f EXCEPT !.bb_search = "error"]

ImagePool ==
    { File(1, 0, 0, 0, 12, 10, 1),      \* Reference
      File(2, 360, 0, 0, 10, 14, 2),    \* Reference, gantry read back as 360
      File(3, 90, 0, 0, 11, 9, 1),      \* Gantry
      File(4, 0, 270, 0, 8, 10, 1),     \* Collimator
      File(5, 0, 0, 1, 10, 7, 1),       \* Couch, one degree off
      File(6, 180, 0, 90, 13, 13, 1),   \* Combo
      Obscured(File(7, 270, 0, 0, 10, 10, 1)) }  \* Gantry, BB not found

\* the directory listings: distinct files in any order
FileLists ==
    { fs \in UNION { [1..n -> ImagePool] : n \in 0..MaxImages } :
        \A m, n \in 1..Len(fs) : m # n => fs[m] # fs[n] }

\* the listing every object of SpecCache is built from
CacheFiles == << File(1, 0, 0, 0, 12, 10, 1), File(2, 360, 0, 0, 10, 14, 2) >>

NoOutput == [op |-> "none", obj |-> 0, axis |-> "none", kind |-> "none", val |-> 0]

AxisIdle ==
    /\ img = File(0, 0, 0, 0, 10, 10, 1)
    /\ axis_res = [done |-> FALSE, variable_axis |-> "none",
                   bb_z_offset |-> NoValue, epid_z_offset |-> NoValue]

\* a labelled region: its bounding box and its number of pixels
Component(ymin, ymax, xmin, xmax, n) ==
    [ymin |-> ymin, ymax |-> ymax, xmin |-> xmin, xmax |-> xmax, sum |-> n]

NoComponent == Component(0, 0, 0, 0, 0)

NoAttempt == [tries |-> 0, num_roi |-> 0, outcome |-> "none", comp |-> NoComponent]

BBIdle ==
    /\ bb_pc = "idle"
    /\ hmin = 0
    /\ hmax = 0
    /\ max_thresh = 0
    /\ lower_thresh = 0
    /\ attempt = NoAttempt

WLIdle ==
    /\ files = << >>
    /\ images = << >>
    /\ optimum = [a \in Axes |-> initial_guess]
    /\ cache = << >>
    /\ solves = << >>
    /\ out = NoOutput
    /\ init_log = << >>

NoPairOutput == [axis |-> "none", first |-> NotEnoughImages, second |-> NotEnoughImages]

PairIdle ==
    /\ files2 = << >>
    /\ pair_out = NoPairOutput

CEIdle ==
    /\ ce_pc = "idle"
    /\ shape0 = <<0, 0>>
    /\ shape = <<0, 0>>
    /\ safety_stop = 0
    /\ strips = 0
    /\ noise = FALSE

(***************************************************************************)
(* The analysis object: construction and queries.                          *)
(***************************************************************************)
Init ==
    /\ files \in FileLists
    /\ images = << >>
    /\ optimum \in [Axes -> Candidates]
    /\ cache = << >>
    /\ solves = << >>
    /\ out = NoOutput
    /\ init_log = << >>
    /\ AxisIdle
    /\ BBIdle
    /\ PairIdle
    /\ CEIdle

BBNotFound == [op |-> "__init__", obj |-> 0, axis |-> "none",
               kind |-> "BBNotFound", val |-> 0]

\* WinstonLutz.__init__, line 74: the next analysis object, of at most limit;
\* when the ImageManager raises there is no object
WinstonLutz_init(limit) ==
    /\ Len(images) < limit
    /\ LET manager == ImageManager_init(files)
       IN  /\ init_log' = manager.log
           /\ IF manager.raised
              THEN /\ out' = BBNotFound
                   /\ UNCHANGED <<images, solves>>
              ELSE /\ images' = Append(images, manager.images)
                   /\ solves' = [k \in DOMAIN solves \cup
                                      {<<Len(images) + 1, a>> : a \in Axes}
                                   |-> IF k \in DOMAIN solves THEN solves[k] ELSE 0]
                   /\ UNCHANGED out
    /\ UNCHANGED <<files, optimum, cache>>
    /\ UNCHANGED axisVars
    /\ UNCHANGED bbVars
    /\ UNCHANGED pairVars
    /\ UNCHANGED ceVars

\* a query of object o: r is what the property computed
Query(op, o, axis, r) ==
    /\ cache' = r.cache
    /\ solves' = r.solves
    /\ out' = [op |-> op, obj |-> o, axis |-> axis,
               kind |-> r.ret.kind, val |-> r.ret.val]
    /\ UNCHANGED <<files, images, optimum, init_log>>
    /\ UNCHANGED axisVars
    /\ UNCHANGED bbVars
    /\ UNCHANGED pairVars
    /\ UNCHANGED ceVars

Now == [cache |-> cache, solves |-> solves]

GantryIsoSize(o) == Query("gantry_iso_size", o, GANTRY, gantry_iso_size(Now, o))
GantryIso2bbVector(o) ==
    Query("gantry_iso2bb_vector", o, GANTRY, gantry_iso2bb_vector(Now, o))
CollimatorIsoSize(o) ==
    Query("collimator_iso_size", o, COLLIMATOR, collimator_iso_size(Now, o))
CollimatorIso2bbVector(o) ==
    Query("collimator_iso2bb_vector", o, COLLIMATOR, collimator_iso2bb_vector(Now, o))
CouchIsoSize(o) == Query("couch_iso_size", o, COUCH, couch_iso_size(Now, o))
CouchIso2bbVector(o) ==
    Query("couch_iso2bb_vector", o, COUCH, couch_iso2bb_vector(Now, o))

\* the sag ranges read the images only
Read(r) == [cache |-> cache, solves |-> solves, ret |-> r]
GantrySag(o) == Query("gantry_sag", o, "none", Read(gantry_sag(images[o])))
EpidSag(o) == Query("epid_sag", o, "none", Read(epid_sag(images[o])))

Objects == 1..Len(images)

Construct == WinstonLutz_init(1)
QueryGantryIsoSize == \E o \in Objects : GantryIsoSize(o)
QueryGantryIso2bbVector == \E o \in Objects : GantryIso2bbVector(o)
QueryCollimatorIsoSize == \E o \in Objects : CollimatorIsoSize(o)
QueryCollimatorIso2bbVector == \E o \in Objects : CollimatorIso2bbVector(o)
QueryCouchIsoSize == \E o \in Objects : CouchIsoSize(o)
QueryCouchIso2bbVector == \E o \in Objects : CouchIso2bbVector(o)
QueryGantrySag == \E o \in Objects : GantrySag(o)
QueryEpidSag == \E o \in Objects : EpidSag(o)

Next ==
    \/ Construct
    \/ QueryGantryIsoSize
    \/ QueryGantryIso2bbVector
    \/ QueryCollimatorIsoSize
    \/ QueryCollimatorIso2bbVector
    \/ QueryCouchIsoSize
    \/ QueryCouchIso2bbVector
    \/ QueryGantrySag
    \/ QueryEpidSag

Spec == Init /\ [][Next]_vars

(***************************************************************************)
(* SpecAxis: the classification and the in/out offsets of one image, as    *)
(* pure functions of its angles.                                           *)
(***************************************************************************)
AngleSamples == {0, 1, 2, 3, 90, 357, 358, 359, 360}

InitAxis ==
    /\ \E g, b, p \in AngleSamples : img = File(0, g, b, p, 12, 7, 1)
    /\ axis_res = [done |-> FALSE, variable_axis |-> "none",
                   bb_z_offset |-> NoValue, epid_z_offset |-> NoValue]
    /\ WLIdle
    /\ BBIdle
    /\ PairIdle
    /\ CEIdle

ReadAxisProperties ==
    /\ ~axis_res.done
    /\ axis_res' = [done |-> TRUE, variable_axis |-> variable_axis(img),
                    bb_z_offset |-> bb_z_offset(img),
                    epid_z_offset |-> epid_z_offset(img)]
    /\ UNCHANGED img
    /\ UNCHANGED wlVars
    /\ UNCHANGED bbVars
    /\ UNCHANGED pairVars
    /\ UNCHANGED ceVars

NextAxis == ReadAxisProperties

SpecAxis == InitAxis /\ [][NextAxis]_vars

(***************************************************************************)
(* SpecFindBB: the threshold-lowering search of WLImage._find_bb,          *)
(* winston_lutz.py:568-593.  Intensities are integers and spread is a      *)
(* multiple of 60, so that spread / 1.5 and 0.05 * spread are exact.       *)
(***************************************************************************)
HminSamples == {0, 30}
SpreadSamples == {0, 60, 120}

\* lines 569-574
InitFindBB ==
    /\ hmin \in HminSamples
    /\ \E spread \in SpreadSamples :
          /\ hmax = hmin + spread
          /\ max_thresh = hmin + spread
          /\ lower_thresh = hmin + spread - (2 * spread) \div 3
    /\ bb_pc = "loop"
    /\ attempt = NoAttempt
    /\ AxisIdle
    /\ WLIdle
    /\ PairIdle
    /\ CEIdle

\* the regions the third-largest entry of roi_sizes may be
Components ==
    { Component(0, 20, 0, 20, 314),     \* a disc
      Component(0, 20, 0, 23, 361),     \* a disc three pixels wider than high
      Component(0, 20, 0, 20, 400),     \* a filled square
      Component(0, 5, 0, 5, 20),        \* a speck
      Component(0, 70, 0, 70, 3848),    \* a large disc
      Component(0, 20, 0, 30, 471),     \* an ellipse, too wide
      Component(0, 20, 0, 16, 251) }    \* an ellipse, too narrow

\* np.pi, to four decimals
PiE4 == 31416

\* core.mask.filled_area_ratio: pixels over bounding-box area, as a fraction
filled_area_ratio(c) ==
    [num |-> c.sum, den |-> (c.ymax - c.ymin) * (c.xmax - c.xmin)]

\* lines 802-806: pi/4 * 1.2 > ratio > pi/4 * 0.8
is_round(c) ==
    LET r == filled_area_ratio(c)
    IN  /\ 12 * PiE4 * r.den > 400000 * r.num
        /\ 400000 * r.num > 8 * PiE4 * r.den

\* lines 795-799
is_modest_size(c, bbox) ==
    LET rad_field_area == (bbox[2] - bbox[1]) * (bbox[4] - bbox[3])
    IN  /\ rad_field_area * 3 < 1000 * c.sum
        /\ 10 * c.sum < rad_field_area * 3

\* lines 785-792
is_symmetric(c) ==
    LET y == Abs(c.ymax - c.ymin)
        x == Abs(c.xmax - c.xmin)
    IN  ~ \/ 100 * x > Max({y * 105, 100 * (y + 3)})
          \/ 100 * x < Min({y * 95, 100 * (y - 3)})

\* a try block that leaves out the symmetry check
try_block_no_symmetry(num_roi, comp, bbox) ==
    IF num_roi + 1 < 3 THEN "IndexError"
    ELSE IF ~is_round(comp) THEN "not_round"
    ELSE IF ~is_modest_size(comp, bbox) THEN "not_modest_size"
    ELSE "accepted"

\* what one pass of the try block (lines 577-587) ends in, given the number
\* of regions ndimage labels and the third-largest entry of roi_sizes:
\* argsort(roi_sizes)[-3] raises IndexError unless roi_sizes (the
\* background and the regions) has 3 entries
try_block(num_roi, comp, bbox) ==
    IF num_roi + 1 < 3 THEN "IndexError"
    ELSE IF ~is_round(comp) THEN "not_round"
    ELSE IF ~is_modest_size(comp, bbox) THEN "not_modest_size"
    ELSE IF ~is_symmetric(comp) THEN "not_symmetric"
    ELSE "accepted"

\* line 589: 5% of spread
Lowered(t) == t - (hmax - hmin) \div 20

\* line 590
BelowFloor(t) == t < hmin

\* one iteration of the while loop, lines 575-593; no pixel lies in
\* [lower_thresh, max_thresh) when the interval is empty
find_bb_attempt ==
    /\ bb_pc = "loop"
    /\ \E num_roi \in 0..MaxRoi :
       \E comp \in IF num_roi + 1 < 3 THEN {NoComponent} ELSE Components :
       LET outcome == try_block(num_roi, comp, img.bounding_box) IN
          /\ max_thresh <= lower_thresh => num_roi = 0
          /\ attempt' = [tries |-> 1 - attempt.tries, num_roi |-> num_roi,
                         outcome |-> outcome, comp |-> comp]
          /\ IF outcome = "accepted"
             THEN /\ bb_pc' = "found"
                  /\ UNCHANGED max_thresh
             ELSE /\ max_thresh' = Lowered(max_thresh)
                  /\ bb_pc' = IF BelowFloor(Lowered(max_thresh)) THEN "error"
                              ELSE "loop"
    /\ UNCHANGED <<hmin, hmax, lower_thresh>>
    /\ UNCHANGED axisVars
    /\ UNCHANGED wlVars
    /\ UNCHANGED pairVars
    /\ UNCHANGED ceVars

NextFindBB == find_bb_attempt

SpecFindBB == InitFindBB /\ [][NextFindBB]_vars

\* the loop keeps running: an iteration that can be made is made
FairSpecFindBB == SpecFindBB /\ WF_vars(find_bb_attempt)

(***************************************************************************)
(* SpecCache: a client that builds one analysis object after another from  *)
(* the same two Reference images, reads the three isocenter sizes of each  *)
(* new object in turn, and may read the gantry isocenter size of the first *)
(* object again at any time.                                               *)
(***************************************************************************)
InitCache ==
    /\ files = CacheFiles
    /\ images = << >>
    /\ \E p \in Candidates : optimum = [a \in Axes |-> p]
    /\ cache = << >>
    /\ solves = << >>
    /\ out = NoOutput
    /\ init_log = << >>
    /\ AxisIdle
    /\ BBIdle
    /\ PairIdle
    /\ CEIdle

Newest == Len(images)

Solved(o, axis) == solves[<<o, axis>>] >= 1

CacheConstruct ==
    /\ Newest > 0 => \A a \in Axes : Solved(Newest, a)
    /\ WinstonLutz_init(NumCacheObjects)

SweepGantry ==
    /\ Newest > 0
    /\ ~Solved(Newest, GANTRY)
    /\ GantryIsoSize(Newest)

SweepCollimator ==
    /\ Newest > 0
    /\ Solved(Newest, GANTRY)
    /\ ~Solved(Newest, COLLIMATOR)
    /\ CollimatorIsoSize(Newest)

SweepCouch ==
    /\ Newest > 0
    /\ Solved(Newest, COLLIMATOR)
    /\ ~Solved(Newest, COUCH)
    /\ CouchIsoSize(Newest)

RequeryFirst ==
    /\ Newest > 0
    /\ Solved(1, GANTRY)
    /\ GantryIsoSize(1)

NextCache ==
    \/ CacheConstruct
    \/ SweepGantry
    \/ SweepCollimator
    \/ SweepCouch
    \/ RequeryFirst

SpecCache == InitCache /\ [][NextCache]_vars

(***************************************************************************)
(* SpecCleanEdges: WLImage._clean_edges, winston_lutz.py:513-534, on an    *)
(* image of any shape and any pixel content.  safety_stop is kept in       *)
(* tenths, so that np.min(self.shape)/10 is a whole number.                *)
(***************************************************************************)
\* the default of the parameter, line 513
window_size == 2

\* core.image.remove_edges: the band is cut off all four sides; a slice of
\* an axis shorter than the two bands is empty
remove_edges(sh, pixels) ==
    << Max({0, sh[1] - 2 * pixels}), Max({0, sh[2] - 2 * pixels}) >>

Empty(sh) == sh[1] = 0 \/ sh[2] = 0

\* what has_noise (lines 515-531) can return on an image of the shape: with
\* one or two pixels no pixel lies a tenth of the range outside the 5th and
\* 99.5th percentile, from three pixels on one low pixel of the band does
has_noise(sh) == IF sh[1] * sh[2] >= 3 THEN {TRUE, FALSE} ELSE {FALSE}

\* a countdown that starts from the larger dimension
safety_stop_from_max(sh) == Max({sh[1], sh[2]})

\* line 532, in tenths
safety_stop_start(sh) == Min({sh[1], sh[2]})

InitCleanEdges ==
    /\ shape0 \in (1..MaxDim) \X (1..MaxDim)
    /\ shape = shape0
    /\ safety_stop = safety_stop_start(shape0)
    /\ strips = 0
    /\ noise = FALSE
    /\ ce_pc = "loop"
    /\ AxisIdle
    /\ WLIdle
    /\ BBIdle
    /\ PairIdle

\* one evaluation of the while condition of line 533 and, when it holds, the
\* body; has_noise is the left operand and is called first, and on an image
\* without pixels its edge_array.min() raises ValueError
clean_edges_step ==
    /\ ce_pc = "loop"
    /\ IF Empty(shape)
       THEN /\ ce_pc' = "error"
            /\ UNCHANGED <<shape, safety_stop, strips, noise>>
       ELSE \E n \in has_noise(shape) :
               /\ noise' = n
               /\ IF n /\ safety_stop > 0
                  THEN /\ shape' = remove_edges(shape, window_size)
                       /\ safety_stop' = safety_stop - 10
                       /\ strips' = strips + 1
                       /\ UNCHANGED ce_pc
                  ELSE /\ ce_pc' = "done"
                       /\ UNCHANGED <<shape, safety_stop, strips>>
    /\ UNCHANGED shape0
    /\ UNCHANGED axisVars
    /\ UNCHANGED wlVars
    /\ UNCHANGED bbVars
    /\ UNCHANGED pairVars

NextCleanEdges == clean_edges_step

SpecCleanEdges == InitCleanEdges /\ [][NextCleanEdges]_vars

(***************************************************************************)
(* SpecTwo: a client that builds an analysis object from one directory,    *)
(* may turn to another directory, builds a second object, and queries the  *)
(* six isocenter properties of both in any order.                          *)
(***************************************************************************)
PoolFile(k) == CHOOSE f \in ImagePool : f.file = k

\* two Reference images: every axis can be solved; a Reference and a Gantry
\* image: the gantry axis only; one Couch image: no axis
TwoLists ==
    { << PoolFile(1), PoolFile(2) >>,
      << PoolFile(1), PoolFile(3) >>,
      << PoolFile(5) >> }

InitTwo ==
    /\ files \in TwoLists
    /\ images = << >>
    /\ \E p \in Candidates : optimum = [a \in Axes |-> p]
    /\ cache = << >>
    /\ solves = << >>
    /\ out = NoOutput
    /\ init_log = << >>
    /\ AxisIdle
    /\ BBIdle
    /\ PairIdle
    /\ CEIdle

TwoConstruct == WinstonLutz_init(2)

\* the client points at another directory before it builds the second object
ChangeDirectory ==
    /\ Len(images) = 1
    /\ files' \in TwoLists \ {files}
    /\ UNCHANGED <<images, optimum, cache, solves, out, init_log>>
    /\ UNCHANGED axisVars
    /\ UNCHANGED bbVars
    /\ UNCHANGED pairVars
    /\ UNCHANGED ceVars

NextTwo ==
    \/ TwoConstruct
    \/ ChangeDirectory
    \/ QueryGantryIsoSize
    \/ QueryGantryIso2bbVector
    \/ QueryCollimatorIsoSize
    \/ QueryCollimatorIso2bbVector
    \/ QueryCouchIsoSize
    \/ QueryCouchIso2bbVector

SpecTwo == InitTwo /\ [][NextTwo]_vars

(***************************************************************************)
(* SpecPair: two analysis objects built from two directories, and the      *)
(* solve of _minimize_axis (its body, winston_lutz.py:115-135) run for one *)
(* axis on the collection of each.                                         *)
(***************************************************************************)
\* the files of the two directories: one image of each class
PairPool == { f \in ImagePool : f.file \in {1, 3, 4, 5, 6} }

\* the listings of SpecPair: distinct files in any order
PairLists ==
    { fs \in UNION { [1..n -> PairPool] : n \in 0..PairLen } :
        \A m, n \in 1..Len(fs) : m # n => fs[m] # fs[n] }

InitPair ==
    /\ files \in PairLists
    /\ files2 \in PairLists
    /\ images = << ImageManager_init(files).images,
                   ImageManager_init(files2).images >>
    /\ \E p \in Candidates : optimum = [a \in Axes |-> p]
    /\ cache = << >>
    /\ solves = [k \in {1, 2} \X Axes |-> 0]
    /\ out = NoOutput
    /\ init_log = ImageManager_init(files2).log
    /\ pair_out = NoPairOutput
    /\ AxisIdle
    /\ BBIdle
    /\ CEIdle

\* the body of _minimize_axis for one axis, on both collections
SolvePair(axis) ==
    /\ pair_out = NoPairOutput
    /\ pair_out' = [axis |-> axis,
                    first |-> minimize_axis_body(images[1], axis),
                    second |-> minimize_axis_body(images[2], axis)]
    /\ UNCHANGED files2
    /\ UNCHANGED wlVars
    /\ UNCHANGED axisVars
    /\ UNCHANGED bbVars
    /\ UNCHANGED ceVars

SolvePairGantry == SolvePair(GANTRY)
SolvePairCollimator == SolvePair(COLLIMATOR)
SolvePairCouch == SolvePair(COUCH)

NextPair ==
    \/ SolvePairGantry
    \/ SolvePairCollimator
    \/ SolvePairCouch

SpecPair == InitPair /\ [][NextPair]_vars

(***************************************************************************)
(*                             PROPERTIES                                  *)
(***************************************************************************)
SizeOps == {"gantry_iso_size", "collimator_iso_size", "couch_iso_size"}
VectorOps == {"gantry_iso2bb_vector", "collimator_iso2bb_vector",
              "couch_iso2bb_vector"}

\* the images of collection imgs classified as one of the classes
CountOfClass(imgs, classes) ==
    Cardinality({n \in 1..Len(imgs) : variable_axis(imgs[n]) \in classes})

\* C2: for every axis, a request for the axis's isocenter (size or vector)
\* raises the insufficient-data error when fewer than 2 images of the
\* collection are classified as that axis or as Reference, and returns a
\* solution when 2 or more are.
C2_InsufficientDataIffFewerThanTwo ==
    out.op \in SizeOps \cup VectorOps =>
        LET n == CountOfClass(images[out.obj], {out.axis, REFERENCE})
        IN  /\ n < 2 => out.kind = "NotEnoughImages"
            /\ n >= 2 => out.kind = "ok"

C2_Witness ==
    /\ out.op = "couch_iso_size"
    /\ out.kind = "ok"
    /\ CountOfClass(images[out.obj], {COUCH, REFERENCE}) = 2
    /\ CountOfClass(images[out.obj], {GANTRY, REFERENCE}) = 1

\* C3 as stated: a request for the Couch-axis isocenter on a collection
\* with no Couch-classified image (only Reference images, in any number)
\* raises the insufficient-data error.
C3_NoCouchImagesRaises ==
    ( /\ out.op \in {"couch_iso_size", "couch_iso2bb_vector"}
      /\ CountOfClass(images[out.obj], {REFERENCE}) = Len(images[out.obj]) )
    => out.kind = "NotEnoughImages"

\* C3 as amended: a request for the Couch-axis isocenter on a collection
\* with no Couch-classified image raises the insufficient-data error when
\* the collection holds at most one Reference image, and returns a value
\* when it holds two or more.
C3_NoCouchImagesRaisesUnlessTwoReferences ==
    ( /\ out.op \in {"couch_iso_size", "couch_iso2bb_vector"}
      /\ CountOfClass(images[out.obj], {COUCH}) = 0 )
    => ( out.kind = "NotEnoughImages"
           <=> CountOfClass(images[out.obj], {REFERENCE}) <= 1 )

C3_Witness ==
    /\ out.op = "couch_iso_size"
    /\ CountOfClass(images[out.obj], {COUCH}) = 0
    /\ CountOfClass(images[out.obj], {REFERENCE}) = 1
    /\ Len(images[out.obj]) = 3
    /\ out.kind = "NotEnoughImages"

\* C4: over any sequence of isocenter queries on any number of analysis
\* objects, the optimisation of each axis of each object is run at most
\* once.
C4_EachAxisSolvedAtMostOnce ==
    \A k \in DOMAIN solves : solves[k] <= 1

\* C5: every component of a reported isocenter-to-BB vector is minus the
\* corresponding coordinate of the optimised isocenter position.
C5_VectorIsNegatedOptimum ==
    (out.op \in VectorOps /\ out.kind = "ok") =>
        /\ out.val.x = 0 - optimum[out.axis][1]
        /\ out.val.y = 0 - optimum[out.axis][2]
        /\ out.op = "gantry_iso2bb_vector" => out.val.z = 0 - optimum[out.axis][3]

\* the objective at the optimum: the largest distance over the images that
\* contribute to the axis
Objective(o, axis) == distance(axis, optimum[axis], Things(images[o], axis))

\* C6: the Gantry and Collimator isocenter sizes are twice the minimised
\* objective value; the Couch isocenter size is twice the optimised radius
\* (which need not be twice the objective value).
C6_SizesFromObjectiveAndRadius ==
    (out.op \in SizeOps /\ out.kind = "ok") =>
        /\ out.op = "gantry_iso_size" => out.val = 2 * Objective(out.obj, GANTRY)
        /\ out.op = "collimator_iso_size"
              => out.val = 2 * Objective(out.obj, COLLIMATOR)
        /\ out.op = "couch_iso_size" => out.val = 2 * optimum[COUCH][4]

C6_Witness ==
    /\ out.op = "couch_iso_size"
    /\ out.kind = "ok"
    /\ out.val = 2 * optimum[COUCH][4]
    /\ out.val # 2 * Objective(out.obj, COUCH)

\* an angle of [0, 360] within one degree of 0 or of 360
AtZero(a) == a < 1 \/ a > 359

Deviating(i) ==
    {ax \in Axes :
        \/ ax = GANTRY /\ ~AtZero(i.GantryAngle)
        \/ ax = COLLIMATOR /\ ~AtZero(i.BeamLimitingDeviceAngle)
        \/ ax = COUCH /\ ~AtZero(i.PatientSupportAngle)}

\* C7: variable_axis is Reference when all three angles are at 0/360,
\* the one axis whose angle deviates when exactly one does, and Combo
\* when two or more deviate; 360 counts as 0.
C7_ClassFromDeviatingAngles ==
    axis_res.done =>
        /\ Cardinality(Deviating(img)) = 0 => axis_res.variable_axis = REFERENCE
        /\ Cardinality(Deviating(img)) = 1
              => axis_res.variable_axis \in Deviating(img)
        /\ Cardinality(Deviating(img)) >= 2 => axis_res.variable_axis = COMBO

C7_Witness ==
    /\ axis_res.done
    /\ img.GantryAngle = 360
    /\ img.BeamLimitingDeviceAngle = 90
    /\ img.PatientSupportAngle = 0
    /\ axis_res.variable_axis = COLLIMATOR

\* position of image x in the load order
LoadIndex(x) == CHOOSE n \in 1..Len(files) : files[n] = x

\* C8: after construction the collection holds every loaded image exactly
\* once, its keys (gantry, collimator, couch) never decrease along the
\* sequence, and images with equal keys keep their load order.
C8_CollectionIsStableSort ==
    \A o \in Objects :
        LET c == images[o]
        IN  /\ Len(c) = Len(files)
            /\ \A n \in 1..Len(files) :
                  Cardinality({m \in 1..Len(c) : c[m] = files[n]}) = 1
            /\ \A m, n \in 1..Len(c) :
                  m < n => /\ ~TupleLess(SortKey(c[n]), SortKey(c[m]))
                           /\ SortKey(c[m]) = SortKey(c[n])
                                 => LoadIndex(c[m]) < LoadIndex(c[n])

C8_Witness ==
    /\ Len(images) = 1
    /\ Len(files) = 3
    /\ SortKey(files[1]) = SortKey(files[3])
    /\ TupleLess(SortKey(files[1]), SortKey(files[2]))
    /\ files[1].GantryAngle = 360
    /\ images[1] = <<files[1], files[3], files[2]>>

\* C9: for every image, also one whose spread is 0, the BB search ends:
\* an attempt is accepted or the search aborts with the detection error.
C9_SearchEnds == <>(bb_pc \in {"found", "error"})

\* an angle of [0, 360] within two degrees of 0 or of 360
WithinTwoOfZero(a) == a < 2 \/ a > 358

\* C10: bb_z_offset and epid_z_offset are numbers (minus the y component
\* of the CAX vectors) when the couch angle is within tolerance of 0 or
\* 360, and are no value for every other couch angle.
C10_ZOffsetDefinedIffCouchNearZero ==
    axis_res.done =>
        IF WithinTwoOfZero(img.PatientSupportAngle)
        THEN /\ axis_res.bb_z_offset = Num(0 - cax2bb_vector(img).y)
             /\ axis_res.epid_z_offset = Num(0 - cax2epid_vector(img).y)
        ELSE /\ axis_res.bb_z_offset = NoValue
             /\ axis_res.epid_z_offset = NoValue

C10_Witness ==
    /\ axis_res.done
    /\ img.PatientSupportAngle = 90
    /\ ~axis_res.bb_z_offset.some
    /\ ~axis_res.epid_z_offset.some

\* C11: when the BB search fails for one file of the directory, the
\* construction raises and no collection exists; a collection that exists
\* holds every file of the directory, each with its BB found by a _find_bb
\* step of the construction.
HasAllFiles(c) ==
    /\ Len(c) = Len(files)
    /\ \A n \in 1..Len(files) : \E m \in 1..Len(c) : c[m] = files[n]

SomeSearchFails == \E n \in 1..Len(files) : files[n].bb_search = "error"

C11_FailedDetectionFailsConstruction ==
    /\ SomeSearchFails => images = << >>
    /\ (SomeSearchFails /\ init_log # << >>) => out = BBNotFound
    /\ out.op = "__init__" => (SomeSearchFails /\ images = << >>)
    /\ \A o \in 1..Len(images) :
          /\ HasAllFiles(images[o])
          /\ \A m \in 1..Len(images[o]) :
                /\ images[o][m].bb_search = "found"
                /\ \E k \in 1..Len(init_log) :
                      init_log[k] = [file |-> images[o][m].file, step |-> "_find_bb"]

\* the second of three files fails: the first two were loaded, the third not
C11_Witness ==
    /\ out = BBNotFound
    /\ Len(files) = 3
    /\ files[2].bb_search = "error"
    /\ Len(init_log) = 6
    /\ images = << >>

\* C12: the construction runs, for every image of the collection, edge
\* cleaning, field detection and BB location once each and in this order;
\* afterwards no step (a query of a size, a vector or a sag range) changes
\* an image of a collection, the members or the order of a collection, or
\* the record of the detection steps.
StepsOf(log, f) ==
    LET own == SelectSeq(log, LAMBDA e : e.file = f)
    IN  [n \in 1..Len(own) |-> own[n].step]

C12_DetectionOnceInOrderThenFrozen ==
    [][ /\ \A o \in 1..Len(images) : Len(images') >= o /\ images'[o] = images[o]
        /\ Len(images') > Len(images) =>
              \A m \in 1..Len(images'[Len(images')]) :
                 StepsOf(init_log', images'[Len(images')][m].file)
                    = <<"_clean_edges", "_find_field_centroid", "_find_bb">>
        /\ (Len(images) > 0 /\ Len(images') = Len(images)) => init_log' = init_log
      ]_vars

\* a collection of three images was built and a sag range was read from it
C12_Witness ==
    /\ Len(images) = 1
    /\ Len(images[1]) = 3
    /\ Len(init_log) = 9
    /\ out.op = "gantry_sag"
    /\ out.kind = "ok"

\* C13: an attempt of the BB search accepts its candidate exactly when
\* roi_sizes has a third-largest entry (the background counts as one) and
\* the entry's region is round, of modest size and symmetric; every other
\* attempt lowers the upper threshold by a twentieth of the spread and
\* accepts nothing; no attempt changes the lower threshold.  So the search
\* is left with a region that passed all three checks.
Passes(a) ==
    /\ a.num_roi + 1 >= 3
    /\ is_round(a.comp)
    /\ is_modest_size(a.comp, img.bounding_box)
    /\ is_symmetric(a.comp)

C13_AcceptedIffAllChecksPass ==
    [][ bb_pc = "loop" =>
          /\ lower_thresh' = lower_thresh
          /\ IF Passes(attempt')
             THEN bb_pc' = "found" /\ max_thresh' = max_thresh
             ELSE /\ bb_pc' # "found"
                  /\ 20 * (max_thresh - max_thresh') = hmax - hmin
      ]_vars

\* found, after an earlier attempt had lowered the threshold
C13_Witness ==
    /\ bb_pc = "found"
    /\ attempt.comp = Component(0, 20, 0, 23, 361)
    /\ max_thresh < hmax
    /\ lower_thresh < max_thresh

\* C14: two collections with the same images of an axis and the same
\* Reference images (they differ in Combo images and in images of the other
\* two axes only) get the same outcome from the solve of that axis: the
\* same solution or the same error.
RelevantImages(c, axis) ==
    { c[n] : n \in { k \in 1..Len(c) : variable_axis(c[k]) = axis
                                        \/ variable_axis(c[k]) = REFERENCE } }

C14_SolveDependsOnAxisAndReferenceOnly ==
    (/\ pair_out.axis \in Axes
     /\ RelevantImages(images[1], pair_out.axis)
          = RelevantImages(images[2], pair_out.axis))
    => pair_out.first = pair_out.second

\* a Gantry and a Reference image in both, a Combo image in one of them
C14_Witness ==
    /\ pair_out.axis = GANTRY
    /\ pair_out.first.kind = "ok"
    /\ pair_out.first = pair_out.second
    /\ Len(images[1]) = 3
    /\ Len(images[2]) = 2
    /\ \E n \in 1..3 : variable_axis(images[1][n]) = COMBO
    /\ \E n \in 1..2 : variable_axis(images[2][n]) = GANTRY

\* C15: edge cleaning strips the border band at most (smaller dimension of
\* the image it was given) / 10 times.
SmallerDimension == Min({shape0[1], shape0[2]})

C15_StripsAtMostTenthOfSmallerDimension == 10 * strips <= SmallerDimension

\* C15, amended: edge cleaning strips the border band at most (smaller
\* dimension of the image it was given) / 10 times, rounded up to a whole
\* number; and the evaluation that finds the border band clean strips
\* nothing and ends the cleaning.
C15_StripsAtMostTenthRoundedUp ==
    [][ /\ 10 * (strips' - 1) < SmallerDimension
        /\ (ce_pc = "loop" /\ ~noise') =>
              /\ shape' = shape
              /\ strips' = strips
              /\ ce_pc' = "done"
      ]_vars

\* 11 rows: the band was stripped twice, then found clean
C15_Witness ==
    /\ shape0 = <<11, 12>>
    /\ strips = 2
    /\ ce_pc = "done"
    /\ ~noise

\* C18: edge cleaning keeps at least one row and one column, and has_noise
\* is never called on an image without pixels.
C18_CleanedImageKeepsPixels ==
    /\ shape[1] >= 1
    /\ shape[2] >= 1
    /\ ce_pc # "error"

\* C17: an image classified Gantry or Reference has a number, not "no
\* value", as its bb_z_offset and as its epid_z_offset.
C17_GantryAndReferenceHaveZOffsets ==
    (axis_res.done /\ axis_res.variable_axis \in {GANTRY, REFERENCE})
    => (axis_res.bb_z_offset.some /\ axis_res.epid_z_offset.some)

\* a Gantry image whose couch angle was read back as 360
C17_Witness ==
    /\ axis_res.done
    /\ axis_res.variable_axis = GANTRY
    /\ img.PatientSupportAngle = 360
    /\ axis_res.bb_z_offset.some
    /\ axis_res.epid_z_offset.some

\* C16: a query (of the size or of the vector, the first or a repeated one)
\* of an axis with fewer than 2 qualifying images raises the
\* insufficient-data error; a query that raises it stores nothing and
\* leaves every stored result, of any axis and any analysis object, as it
\* was; and a query of a stored result returns that result without a solve.
C16_FailureIsNeverStored ==
    [][ (images' = images /\ files' = files /\ out'.op \in SizeOps \cup VectorOps) =>
          LET o == out'.obj
              a == out'.axis
              n == CacheIndex(cache, <<o, a>>)
          IN  /\ CountOfClass(images[o], {a, REFERENCE}) < 2 =>
                    out'.kind = "NotEnoughImages"
              /\ out'.kind = "NotEnoughImages" =>
                    (cache' = cache /\ solves' = solves /\ n = 0)
              /\ n > 0 => /\ out'.kind = "ok"
                          /\ solves' = solves
                          /\ cache'[1] = cache[n]
                          /\ Len(cache') = Len(cache)
              /\ \A m \in 1..Len(cache') : cache'[m].result.kind = "ok"
      ]_vars

\* the collimator query of the second object has just failed, with results
\* of the first object and of the second object's gantry axis stored
C16_Witness ==
    /\ out.kind = "NotEnoughImages"
    /\ out.obj = 2
    /\ out.axis = COLLIMATOR
    /\ CacheIndex(cache, <<1, COLLIMATOR>>) > 0
    /\ CacheIndex(cache, <<2, GANTRY>>) > 0
    /\ solves[<<2, COLLIMATOR>>] = 0

====
